---- MODULE Spec2Model ----
(***************************************************************************)
(* Energy-Aware DVFS scheduler simulator (EADVFS): the process model, the  *)
(* power model, the two scheduling decisions and the event-driven loop of  *)
(* Simulator::simulate_eadvfs, followed by the reporting computations.     *)
(*                                                                         *)
(* The program computes in C++ double.  A double is modelled as an exact   *)
(* rational <<numerator, denominator>> in lowest terms, denominator > 0.   *)
(* All times of the model stay far below 2^52 * 1e-9 ms, the range in      *)
(* which adding a remaining/speed above 1e-9 to the clock cannot be        *)
(* absorbed by rounding.                                                   *)
(***************************************************************************)
EXTENDS Integers, Sequences, FiniteSets, TLC

VARIABLES procs, current_time, energy, busy_time, gantt, sim_end_ms, pc,
          trace, call, pm, runs, prev_out, main, an

vars == <<procs, current_time, energy, busy_time, gantt, sim_end_ms, pc,
          trace, call, pm, runs, prev_out, main, an>>

\* what simulate_eadvfs never writes: the power model, the caller's state,
\* and the state of the separate analyzer program
setup == <<pm, runs, prev_out, main, an>>

----------------------------------------------------------------------------
(* double arithmetic, exact *)

Abs(n) == IF n < 0 THEN -n ELSE n

\* Euclid.  Here and below an operator binds its arguments as values (an
\* element of a singleton set) before it uses them more than once.
RECURSIVE GCD(_, _)
GCD(a, b) ==
    IF b = 0 THEN a ELSE CHOOSE g \in {GCD(b, r) : r \in {a % b}} : TRUE

Norm(n, d) ==
    CHOOSE z \in {<<n \div g, d \div g>> : g \in {GCD(Abs(n), d)}} : TRUE

R(n) == <<n, 1>>

Zero == R(0)

RAdd(x, y) ==
    CHOOSE z \in
      {Norm(a[1] * (l \div a[2]) + b[1] * (l \div b[2]), l) :
         <<a, b, l>> \in {<<x, y, (x[2] \div GCD(x[2], y[2])) * y[2]>>}} : TRUE

RNeg(x) == <<-x[1], x[2]>>

RSub(x, y) == RAdd(x, RNeg(y))

RMul(x, y) ==
    CHOOSE z \in
      {Norm(a[1] * b[1], a[2] * b[2]) :
         <<a, b>> \in {<<Norm(x[1], y[2]), Norm(y[1], x[2])>>}} : TRUE

\* y > 0
RDiv(x, y) == RMul(x, <<y[2], y[1]>>)

\* the cross products also order x against NoEvent, <<1, 0>>
RLt(x, y) == \E a \in {x}, b \in {y} : a[1] * b[2] < b[1] * a[2]

RLe(x, y) == \E a \in {x}, b \in {y} : a[1] * b[2] <= b[1] * a[2]

RMin(x, y) == CHOOSE z \in {IF RLt(b, a) THEN b ELSE a : <<a, b>> \in {<<x, y>>}} : TRUE

RMax(x, y) == CHOOSE z \in {IF RLt(a, b) THEN b ELSE a : <<a, b>> \in {<<x, y>>}} : TRUE

RECURSIVE RSum(_)
RSum(s) == IF s = <<>> THEN Zero ELSE RAdd(s[1], RSum(Tail(s)))

\* 1e-9, the completion epsilon, as 1 / EpsDen
EpsDen == 1000000000

\* x > 1e-9:  n/d > 1/E  <=>  n > 0 and floor(d/n) < E
GtEps(x) == \E a \in {x} : a[1] > 0 /\ (a[2] \div a[1]) < EpsDen

\* the 1e18 "no arrival" sentinel: above every time of the model
NoEvent == <<1, 0>>

Unset == R(-1)

----------------------------------------------------------------------------
(* bounds of the model: the job sets and horizons explored *)

MaxJobs == 2

Arrivals == {0, 20, 300}

Bursts == {0, 20, 50, 100, 200, 250}

SimEnds == {60, 10000}

JobLists == UNION {[1..n -> Arrivals \X Bursts] : n \in 0..MaxJobs}

----------------------------------------------------------------------------
(* Process, FreqLevel, PowerModel *)

Process(id, a, b) ==
    [pid |-> id, arrival |-> R(a), burst |-> R(b), remaining |-> R(b),
     start_time |-> Unset, finish_time |-> Unset]

FreqLevel(g, p, n) == [ghz |-> g, power |-> p, name |-> n]

\* PowerModel::PowerModel
PowerModel ==
    [freqs |-> << FreqLevel(R(1), <<3, 2>>, "1.0GHz"),
                  FreqLevel(<<3, 2>>, <<13, 5>>, "1.5GHz"),
                  FreqLevel(R(2), <<9, 2>>, "2.0GHz") >>,
     idle_power |-> <<1, 5>>]

freqs == pm.freqs

idle_power == pm.idle_power

short_threshold == R(30)

util_threshold == <<3, 5>>

\* a lookahead window of 2 s for the engine's 200 ms
lookahead_window_2s == R(2000)

lookahead_window == R(200)

quantum == R(50)

load_processes(list) == [i \in 1..Len(list) |-> Process(i, list[i][1], list[i][2])]

----------------------------------------------------------------------------
(* Scheduler *)

RECURSIVE short_count(_)
short_count(ready) ==
    IF ready = <<>> THEN 0
    ELSE (IF RLe(ready[1].remaining, short_threshold) THEN 1 ELSE 0)
         + short_count(Tail(ready))

sum_rem(ready) == RSum([i \in 1..Len(ready) |-> ready[i].remaining])

util_pred(ready, lookahead_window_ms) ==
    RMin(R(1), RDiv(sum_rem(ready), RMax(R(1), lookahead_window_ms)))

\* the low-frequency rule tested before the high-frequency rule
pick_frequency_low_first(ready, lookahead_window_ms) ==
    IF ready = <<>> THEN -1
    ELSE LET avg_rem == RDiv(sum_rem(ready), R(Len(ready)))
             short_frac == Norm(short_count(ready), Len(ready))
         IN IF RLt(R(200), avg_rem) THEN 0
            ELSE IF RLt(<<3, 5>>, short_frac)
                    \/ RLt(util_threshold, util_pred(ready, lookahead_window_ms))
            THEN Len(freqs) - 1
            ELSE 1

pick_frequency_index(ready, lookahead_window_ms) ==
    IF ready = <<>> THEN -1
    ELSE LET avg_rem == RDiv(sum_rem(ready), R(Len(ready)))
             short_frac == Norm(short_count(ready), Len(ready))
         IN IF RLt(<<3, 5>>, short_frac)
               \/ RLt(util_threshold, util_pred(ready, lookahead_window_ms))
            THEN Len(freqs) - 1
            ELSE IF RLt(R(200), avg_rem) THEN 0
            ELSE 1

\* the scan of lines 95-99 from position i on, with the best so far at idx
RECURSIVE srtf_scan(_, _, _)
srtf_scan(ready, i, idx) ==
    IF i > Len(ready) THEN idx
    ELSE IF RLt(ready[i].remaining, ready[idx].remaining)
         THEN srtf_scan(ready, i + 1, i)
         ELSE srtf_scan(ready, i + 1, idx)

\* the scan with <= for <: the last of several minimal jobs wins
RECURSIVE srtf_scan_le(_, _, _)
srtf_scan_le(ready, i, idx) ==
    IF i > Len(ready) THEN idx
    ELSE IF RLe(ready[i].remaining, ready[idx].remaining)
         THEN srtf_scan_le(ready, i + 1, i)
         ELSE srtf_scan_le(ready, i + 1, idx)

pick_next_last_of_ties(ready) ==
    IF ready = <<>> THEN 0 ELSE srtf_scan_le(ready, 2, 1)

\* the longest remaining demand for the shortest, lowest position on a tie
pick_next_longest(ready) ==
    IF ready = <<>> THEN 0
    ELSE CHOOSE i \in 1..Len(ready) :
           /\ \A j \in 1..Len(ready) : RLe(ready[j].remaining, ready[i].remaining)
           /\ \A j \in 1..(i - 1) : RLt(ready[j].remaining, ready[i].remaining)

\* the head of the ready queue, without the scan
pick_next_first_ready(ready) == IF ready = <<>> THEN 0 ELSE 1

\* 1-based position in ready (the code's idx + 1); 0 for the code's -1
pick_next_process_index(ready) ==
    IF ready = <<>> THEN 0 ELSE srtf_scan(ready, 2, 1)

----------------------------------------------------------------------------
(* Simulator::simulate_eadvfs *)

\* the readiness test without the remaining-demand test
is_ready_arrived(p, t) == RLe(p.arrival, t)

\* the readiness test with < for <= on the arrival
is_ready_after_arrival(p, t) == RLt(p.arrival, t) /\ GtEps(p.remaining)

is_ready(p, t) == RLe(p.arrival, t) /\ GtEps(p.remaining)

RECURSIVE ready_from(_, _, _)
ready_from(ps, t, i) ==
    IF i > Len(ps) THEN <<>>
    ELSE (IF is_ready(ps[i], t) THEN <<ps[i]>> ELSE <<>>) \o ready_from(ps, t, i + 1)

ReadyQueue(ps, t) == ready_from(ps, t, 1)

RECURSIVE next_from(_, _, _, _)
next_from(ps, t, i, best) ==
    IF i > Len(ps) THEN best
    ELSE next_from(ps, t, i + 1,
                   IF RLt(t, ps[i].arrival) /\ RLt(ps[i].arrival, best)
                   THEN ps[i].arrival ELSE best)

\* the latest, for the earliest, of the arrivals after the clock
next_arrival_latest(ps, t) ==
    LET later == {i \in 1..Len(ps) : RLt(t, ps[i].arrival)}
    IN IF later = {} THEN NoEvent
       ELSE ps[CHOOSE i \in later :
                 \A j \in later : RLe(ps[j].arrival, ps[i].arrival)].arrival

next_arrival_time(ps, t) == next_from(ps, t, 1, NoEvent)

any_left(ps) == \E i \in 1..Len(ps) : GtEps(ps[i].remaining)

\* the run interval without the preemption by the next arrival
run_until_no_preempt(t, p, fl, next_event_time) ==
    LET completion_time == RAdd(t, RDiv(p.remaining, fl.ghz))
    IN IF RLt(quantum, RSub(completion_time, t)) THEN RAdd(t, quantum)
       ELSE completion_time

\* the run interval with the completion time taken from time 0, not the clock
run_until_from_zero(t, p, fl, next_event_time) ==
    LET completion_time == RDiv(p.remaining, fl.ghz)
        r1 == IF RLt(next_event_time, completion_time)
              THEN next_event_time ELSE completion_time
    IN IF RLt(quantum, RSub(r1, t)) THEN RAdd(t, quantum) ELSE r1

\* the run interval as a full quantum, whatever is left of the job
run_until_full_quantum(t, p, fl, next_event_time) == RAdd(t, quantum)

run_until(t, p, fl, next_event_time) ==
    LET time_to_finish == RDiv(p.remaining, fl.ghz)
        completion_time == RAdd(t, time_to_finish)
        r1 == IF RLt(next_event_time, completion_time)
              THEN next_event_time ELSE completion_time
    IN IF RLt(quantum, RSub(r1, t)) THEN RAdd(t, quantum) ELSE r1

\* the first-dispatch stamp without its "unset" test
stamp_start_always(p, t) == [p EXCEPT !.start_time = t]

stamp_start(p, t) ==
    IF RLt(p.start_time, Zero) THEN [p EXCEPT !.start_time = t] ELSE p

\* the progress of a segment without the speed factor
progress_no_speed(p, run_time, fl) ==
    [p EXCEPT !.remaining = RMax(Zero, RSub(p.remaining, run_time))]

progress(p, run_time, fl) ==
    LET work_done == RMul(run_time, fl.ghz)
    IN [p EXCEPT !.remaining = RMax(Zero, RSub(p.remaining, work_done))]

\* the completion stamp without its epsilon test
stamp_finish_always(p, t) == [p EXCEPT !.finish_time = t]

stamp_finish(p, t) ==
    IF ~GtEps(p.remaining) THEN [p EXCEPT !.finish_time = t] ELSE p

run_energy(fl, run_time) == RMul(fl.power, RDiv(run_time, R(1000)))

\* idle energy without the conversion from ms to s
idle_energy_ms(idle_for) == RMul(idle_power, idle_for)

idle_energy(idle_for) == RMul(idle_power, RDiv(idle_for, R(1000)))

\* the merge with = for +=: the last entry's duration is replaced
gantt_append_overwrite(g, pid, run_time) ==
    IF g # <<>> /\ g[Len(g)][1] = pid
    THEN [g EXCEPT ![Len(g)] = <<pid, run_time>>]
    ELSE Append(g, <<pid, run_time>>)

\* the timeline without the merge of adjacent segments
gantt_append_always(g, pid, run_time) == Append(g, <<pid, run_time>>)

gantt_append(g, pid, run_time) ==
    IF g # <<>> /\ g[Len(g)][1] = pid
    THEN [g EXCEPT ![Len(g)] = <<pid, RAdd(g[Len(g)][2], run_time)>>]
    ELSE Append(g, <<pid, run_time>>)

after_run(ps, t) ==
    IF ~any_left(ps) THEN "break_204"
    ELSE IF RLt(sim_end_ms, t) THEN "break_205"
    ELSE "loop"

\* print_stats_and_gantt, lines 214-215
tat(p) == RSub(p.finish_time, p.arrival)

wait(p) == RSub(tat(p), p.burst)

\* print_stats_and_gantt, lines 223-224
RECURSIVE makespan_from(_, _, _)
makespan_from(ps, i, m) ==
    IF i > Len(ps) THEN m
    ELSE makespan_from(ps, i + 1, RMax(m, ps[i].finish_time))

makespan(ps) == makespan_from(ps, 1, Zero)

NoCall == [ready |-> <<>>, window |-> Zero, result |-> -2]

\* no earlier call of simulate_eadvfs on this Simulator
NoOutput == [energy |-> Zero, makespan |-> Zero, gantt |-> <<>>]

\* the analyzer program is not running
NoAnalyzer == [variant |-> "none", cpu_util_ts |-> <<>>, mem_usage_ts |-> <<>>,
               max_observed_mem |-> Zero, next_analysis |-> Zero,
               reports |-> <<>>]

\* the Simulator used directly, not through main
NoMain == [src |-> "api", file |-> <<>>, stage |-> "api", exit |-> -1,
           reported |-> FALSE]

Init ==
    /\ \E list \in JobLists : procs = load_processes(list)
    /\ sim_end_ms \in {R(h) : h \in SimEnds}
    /\ current_time = Zero
    /\ energy = Zero
    /\ busy_time = Zero
    /\ gantt = <<>>
    /\ pc = "start"
    /\ trace = <<>>
    /\ call = NoCall
    /\ pm = PowerModel
    /\ runs = 1
    /\ prev_out = NoOutput
    /\ an = NoAnalyzer
    /\ main = NoMain

\* lines 129-132
Start ==
    /\ pc = "start"
    /\ energy' = Zero
    /\ busy_time' = Zero
    /\ current_time' = Zero
    /\ procs' = [i \in 1..Len(procs) |->
                   [procs[i] EXCEPT !.remaining = procs[i].burst,
                                    !.start_time = Unset,
                                    !.finish_time = Unset]]
    /\ pc' = "loop"
    /\ trace' = <<>>
    /\ UNCHANGED <<gantt, sim_end_ms, call, setup>>

\* lines 147-150
AllDone ==
    /\ pc = "loop"
    /\ ReadyQueue(procs, current_time) = <<>>
    /\ next_arrival_time(procs, current_time) = NoEvent
    /\ pc' = "break_150"
    /\ UNCHANGED <<procs, current_time, energy, busy_time, gantt, sim_end_ms,
                   trace, call, setup>>

\* lines 147-157
Idle ==
    /\ pc = "loop"
    /\ ReadyQueue(procs, current_time) = <<>>
    /\ \E nat \in {next_arrival_time(procs, current_time)} :
          /\ nat # NoEvent
          /\ \E idle_for \in {RSub(nat, current_time)} :
                energy' = RAdd(energy, idle_energy(idle_for))
          /\ current_time' = nat
          /\ trace' = Append(trace, [kind |-> "idle", pid |-> 0, fi |-> -1,
                                     from |-> current_time, to |-> nat,
                                     rem0 |-> Zero])
    /\ UNCHANGED <<procs, busy_time, gantt, sim_end_ms, pc, call, setup>>

\* lines 160-161
frequency_index(ready) ==
    CHOOSE fi \in {IF fi0 < 0 THEN 0 ELSE fi0 :
                     fi0 \in {pick_frequency_index(ready, lookahead_window)}} : TRUE

\* lines 184-199: the dispatched job after a segment of run_time from t
executed(p, t, run_time, fl) ==
    CHOOSE p3 \in
      {stamp_finish(p2, RAdd(t, run_time)) :
         p2 \in {progress(p1, run_time, fl) : p1 \in {stamp_start(p, t)}}} : TRUE

\* lines 162-205 with fl the level read at line 162; each local of the
\* iteration is bound once, in the code's order
RunSegment(ready, fi, fl) ==
    \E p \in {ready[pick_next_process_index(ready)]},
       net \in {next_arrival_time(procs, current_time)} :
    \E until \in {run_until(current_time, p, fl, net)} :
    \E run_time \in {RSub(until, current_time)} :
    \E rec \in {[kind |-> "run", pid |-> p.pid, fi |-> fi,
                 from |-> current_time,
                 to |-> RAdd(current_time, run_time),
                 rem0 |-> p.remaining]} :
       IF RLe(run_time, Zero)
       THEN /\ current_time' = until
            /\ trace' = Append(trace, [rec EXCEPT !.kind = "retry", !.to = until])
            /\ UNCHANGED <<procs, energy, busy_time, gantt, pc>>
       ELSE /\ procs' = [procs EXCEPT ![p.pid] =
                           executed(p, current_time, run_time, fl)]
            /\ energy' = RAdd(energy, run_energy(fl, run_time))
            /\ busy_time' = RAdd(busy_time, run_time)
            /\ gantt' = gantt_append(gantt, p.pid, run_time)
            /\ current_time' = rec.to
            /\ pc' = after_run(procs', current_time')
            /\ trace' = Append(trace, rec)

\* what a read past the end of pm.freqs may deliver when it does not fault
StrayLevels == {FreqLevel(<<1, 2>>, Zero, ""), FreqLevel(R(3), R(9), "?")}

\* line 162 with fi past the end of pm.freqs: the read is out of bounds and
\* the behaviour undefined.  Either the program faults, or the read delivers
\* some level and the iteration goes on with it.
OutOfTable(ready, fi) ==
    \/ /\ pc' = "undefined"
       /\ trace' = Append(trace, [kind |-> "undefined", pid |-> 0, fi |-> fi,
                                  from |-> current_time, to |-> current_time,
                                  rem0 |-> Zero])
       /\ UNCHANGED <<procs, current_time, energy, busy_time, gantt>>
    \/ \E fl \in StrayLevels : RunSegment(ready, fi, fl)

\* lines 159-205
Run ==
    /\ pc = "loop"
    /\ \E ready \in {ReadyQueue(procs, current_time)} :
       /\ ready # <<>>
       /\ \E fi \in {frequency_index(ready)} :
             IF fi >= Len(freqs) THEN OutOfTable(ready, fi)
             ELSE RunSegment(ready, fi, freqs[fi + 1])
    /\ UNCHANGED <<sim_end_ms, call, setup>>

Next == Start \/ AllDone \/ Idle \/ Run

Spec == Init /\ [][Next]_vars

\* the loop is sequential code: an iteration that can be taken is taken
FairSpec == Spec /\ WF_vars(Next)

----------------------------------------------------------------------------
(* simulate_eadvfs called again on the same Simulator with the same jobs  *)

MaxRuns == 2

\* what the report of a finished run shows, lines 223-233
Output == [energy |-> energy, makespan |-> makespan(procs), gantt |-> gantt]

\* the caller keeps the finished run's output and calls simulate_eadvfs again
Again ==
    /\ pc \in {"break_150", "break_204", "break_205"}
    /\ runs < MaxRuns
    /\ runs' = runs + 1
    /\ prev_out' = Output
    /\ pc' = "start"
    /\ UNCHANGED <<procs, current_time, energy, busy_time, gantt, sim_end_ms,
                   trace, call, pm, main, an>>

RerunNext == Next \/ Again

RerunSpec == Init /\ [][RerunNext]_vars

----------------------------------------------------------------------------
(* the power model as a configuration: ascending tables of one, two and   *)
(* three levels in place of the constructor's                              *)

Tables == {SubSeq(PowerModel.freqs, 1, n) : n \in 1..Len(PowerModel.freqs)}

TableInit ==
    /\ \E list \in JobLists : procs = load_processes(list)
    /\ sim_end_ms \in {R(h) : h \in SimEnds}
    /\ current_time = Zero
    /\ energy = Zero
    /\ busy_time = Zero
    /\ gantt = <<>>
    /\ pc = "start"
    /\ trace = <<>>
    /\ call = NoCall
    /\ \E table \in Tables : pm = [PowerModel EXCEPT !.freqs = table]
    /\ runs = 1
    /\ prev_out = NoOutput
    /\ an = NoAnalyzer
    /\ main = NoMain

TableSpec == TableInit /\ [][Next]_vars

----------------------------------------------------------------------------
(* job sets with arrivals and demands that are not whole milliseconds:    *)
(* a demand of 1/44721 ms at speed 2 takes 1/89442 ms, and an arrival at   *)
(* 1/89444 ms cuts the segment when 1/2000012562 ms, under 1e-9, is left   *)

FineProcess(id, a, b) ==
    [pid |-> id, arrival |-> a, burst |-> b, remaining |-> b,
     start_time |-> Unset, finish_time |-> Unset]

FineLists ==
    {<< <<Zero, <<1, 44721>> >>, <<<<1, 89444>>, b>> >> : b \in {Zero, R(20)}}
    \cup {<< <<Zero, <<1, 44721>> >> >>}

FineInit ==
    /\ \/ \E list \in JobLists : procs = load_processes(list)
       \/ \E list \in FineLists :
             procs = [i \in 1..Len(list) |-> FineProcess(i, list[i][1], list[i][2])]
    /\ sim_end_ms \in {R(h) : h \in SimEnds}
    /\ current_time = Zero
    /\ energy = Zero
    /\ busy_time = Zero
    /\ gantt = <<>>
    /\ pc = "start"
    /\ trace = <<>>
    /\ call = NoCall
    /\ pm = PowerModel
    /\ runs = 1
    /\ prev_out = NoOutput
    /\ an = NoAnalyzer
    /\ main = NoMain

FineSpec == FineInit /\ [][Next]_vars

----------------------------------------------------------------------------
(* main: the job source, the load, one run with horizon 100000 ms and the  *)
(* report                                                                  *)

MaxTokens == 4

\* a whitespace-separated token of the input file: a number, or text that
\* operator>> cannot read as a double
Num(n) == <<"num", n>>

NotANumber == <<"text", 0>>

Tokens == {Num(0), Num(20), Num(100), NotANumber}

Files == UNION {[1..n -> Tokens] : n \in 0..MaxTokens}

\* lines 244-253
sample_input ==
    << <<0, 120>>, <<20, 30>>, <<40, 50>>, <<100, 200>>, <<150, 20>>,
       <<300, 400>>, <<350, 60>> >>

\* line 269, while(ifs >> a >> b): pairs are taken until a token is missing
\* or is not a number
RECURSIVE read_jobs(_, _)
read_jobs(file, i) ==
    IF i + 1 > Len(file) THEN <<>>
    ELSE IF file[i][1] = "num" /\ file[i + 1][1] = "num"
         THEN << <<file[i][2], file[i + 1][2]>> >> \o read_jobs(file, i + 2)
         ELSE <<>>

MainInit ==
    /\ procs = <<>>
    /\ sim_end_ms = R(100000)
    /\ current_time = Zero
    /\ energy = Zero
    /\ busy_time = Zero
    /\ gantt = <<>>
    /\ pc = "main"
    /\ trace = <<>>
    /\ call = NoCall
    /\ pm = PowerModel
    /\ runs = 1
    /\ prev_out = NoOutput
    /\ an = NoAnalyzer
    /\ \/ main = [NoMain EXCEPT !.src = "none", !.stage = "begin"]
       \/ main = [NoMain EXCEPT !.src = "unreadable", !.stage = "begin"]
       \/ \E f \in Files :
             main = [NoMain EXCEPT !.src = "file", !.file = f, !.stage = "begin"]

\* lines 263-267
MainOpenFail ==
    /\ main.stage = "begin"
    /\ main.src = "unreadable"
    /\ main' = [main EXCEPT !.stage = "exited", !.exit = 1]
    /\ UNCHANGED <<procs, current_time, energy, busy_time, gantt, sim_end_ms,
                   pc, trace, call, pm, runs, prev_out, an>>

\* lines 268-277, up to the call of simulate_eadvfs
MainLoad ==
    /\ main.stage = "begin"
    /\ main.src # "unreadable"
    /\ procs' = load_processes(IF main.src = "none" THEN sample_input
                               ELSE read_jobs(main.file, 1))
    /\ pc' = "start"
    /\ main' = [main EXCEPT !.stage = "simulate"]
    /\ UNCHANGED <<current_time, energy, busy_time, gantt, sim_end_ms, trace,
                   call, pm, runs, prev_out, an>>

\* lines 278-279
MainReport ==
    /\ main.stage = "simulate"
    /\ pc \in {"break_150", "break_204", "break_205"}
    /\ prev_out' = Output
    /\ main' = [main EXCEPT !.stage = "exited", !.exit = 0, !.reported = TRUE]
    /\ UNCHANGED <<procs, current_time, energy, busy_time, gantt, sim_end_ms,
                   pc, trace, call, pm, runs, an>>

MainNext ==
    MainOpenFail \/ MainLoad \/ Start \/ AllDone \/ Idle \/ Run \/ MainReport

MainSpec == MainInit /\ [][MainNext]_vars

----------------------------------------------------------------------------
(* Scheduler::pick_frequency_index on its own: the inputs are drawn in     *)
(* PickInit and the function is applied once by PickFrequency.             *)

MaxReady == 2

PickRems == {10, 30, 40, 100, 250, 500}

PickWindows == {<<1, 2>>, R(1), R(200), R(1000)}

PickReady ==
    UNION {[1..n -> {Process(0, 0, b) : b \in PickRems}] : n \in 0..MaxReady}

PickInit ==
    /\ procs = <<>>
    /\ sim_end_ms = R(10000)
    /\ current_time = Zero
    /\ energy = Zero
    /\ busy_time = Zero
    /\ gantt = <<>>
    /\ pc = "pick"
    /\ trace = <<>>
    /\ \E rd \in PickReady, w \in PickWindows :
          call = [ready |-> rd, window |-> w, result |-> -2]
    /\ pm = PowerModel
    /\ runs = 1
    /\ prev_out = NoOutput
    /\ an = NoAnalyzer
    /\ main = NoMain

PickFrequency ==
    /\ pc = "pick"
    /\ call.result = -2
    /\ call' = [call EXCEPT !.result = pick_frequency_index(call.ready, call.window)]
    /\ UNCHANGED <<procs, current_time, energy, busy_time, gantt, sim_end_ms,
                   pc, trace, setup>>

PickNext == PickFrequency

PickSpec == PickInit /\ [][PickNext]_vars

----------------------------------------------------------------------------
(* the analyzer program, src/aipo_simulator.cpp, and its phase-1 variant:  *)
(* Simulator::load, step and run_and_analyze.  procs, current_time and pc  *)
(* are the analyzer's own; an holds the rest of its state.                 *)

\* the analyzer's clock is followed up to here
MaxClock == 250

analyzer_quantum == R(10)

analysis_interval == R(100)

EPS == <<1, 1000000>>

AnalyzerProcess(id, a, b, m, io) ==
    [pid |-> id, arrival |-> a, burst |-> b, remaining |-> b, mem_kb |-> m,
     io_weight |-> io, start_time |-> Unset, finish_time |-> Unset,
     cpu_consumed |-> Zero]

\* (arrival, burst, mem_kb, io_weight) with io_weight in [0, 1], and a
\* CPU-only job of half a microsecond, below EPS, at arrival 0
AnalyzerJobs ==
    ({R(0), R(20)} \X {Zero, R(20)} \X {R(100)} \X {Zero, <<1, 2>>, R(1)})
    \cup {<<Zero, <<1, 2000000>>, R(100), Zero>>}

AnalyzerLists == UNION {[1..n -> AnalyzerJobs] : n \in 0..MaxJobs}

load(jobs) ==
    [i \in 1..Len(jobs) |->
       AnalyzerProcess(i, jobs[i][1], jobs[i][2], jobs[i][3], jobs[i][4])]

\* position of the process to run, 0 for the code's -1
pick_next(ps, t) ==
    IF \A i \in 1..Len(ps) : ~is_ready(ps[i], t) THEN 0
    ELSE CHOOSE i \in 1..Len(ps) :
           /\ is_ready(ps[i], t)
           /\ \A j \in 1..Len(ps) :
                 is_ready(ps[j], t) =>
                    /\ RLe(ps[i].remaining, ps[j].remaining)
                    /\ j < i => RLt(ps[i].remaining, ps[j].remaining)

all_done(ps) == \A i \in 1..Len(ps) : ~GtEps(ps[i].remaining)

tnext(ps, t) == next_from(ps, t, 1, NoEvent)

total_mem(ps, t) ==
    RSum([i \in 1..Len(ps) |-> IF is_ready(ps[i], t) THEN ps[i].mem_kb ELSE Zero])

instant_cpu_util(ps, t) ==
    RMin(R(100),
         RMul(RDiv(RSum([i \in 1..Len(ps) |->
                           IF is_ready(ps[i], t)
                           THEN RMax(Zero, RSub(R(1), ps[i].io_weight))
                           ELSE Zero]),
                   RMax(R(1), R(Len(ps)))),
              R(100)))

\* min(quantum, remaining / share) for share > 0, decided on quantum * share
\* so that no intermediate value leaves the integers of the checker
min_quantum(rem, share) ==
    IF RLt(RMul(analyzer_quantum, share), rem) THEN analyzer_quantum
    ELSE RDiv(rem, share)

\* the length of a step: lines 123-124, and min(quantum, remaining) in the
\* phase-1 variant
run_length(variant, p) ==
    IF variant = "phase1" THEN RMin(analyzer_quantum, p.remaining)
    ELSE CHOOSE r \in
           {IF RLe(run, Zero) THEN analyzer_quantum ELSE run :
              run \in {min_quantum(p.remaining,
                                   RMax(RSub(R(1), p.io_weight), <<1, EpsDen>>))}} :
           TRUE

\* lines 121-136: the process after a step of length run that ends at t
stepped(p, t0, run, t) ==
    CHOOSE q \in
      {[p EXCEPT !.start_time = IF RLt(p.start_time, Zero) THEN t0 ELSE p.start_time,
                 !.remaining = rem,
                 !.cpu_consumed = RAdd(p.cpu_consumed, cpu_run),
                 !.finish_time = IF ~GtEps(rem) THEN t ELSE p.finish_time] :
         <<cpu_run, rem>> \in
            {<<c, RMax(Zero, RSub(p.remaining, c))>> :
               c \in {RMul(run, RSub(R(1), p.io_weight))}}} : TRUE

\* lines 160-166: the clock after the progress guard, NoEvent for its break
guard(variant, ps, prev_time, t) ==
    IF variant = "phase1" \/ RLt(RAdd(prev_time, EPS), t) THEN t
    ELSE IF tnext(ps, t) = NoEvent THEN NoEvent
    ELSE RMax(RAdd(t, R(1)), tnext(ps, t))

\* lines 168-171 (one test, not a loop, in the phase-1 variant): the analysis
\* times reported for clock t, from next on
RECURSIVE due(_, _, _)
due(variant, t, next) ==
    IF RLt(t, next) THEN <<>>
    ELSE <<next>> \o (IF variant = "phase1" THEN <<>>
                      ELSE due(variant, t, RAdd(next, analysis_interval)))

\* the rest of an iteration of the while loop of run_and_analyze, after step
\* has left the clock at t and the series at ts: guard, then analysis
iterated(prev_time, t, cpu, mem, maxmem) ==
    \E t2 \in {guard(an.variant, procs', prev_time, t)} :
       IF t2 = NoEvent
       THEN /\ current_time' = t
            /\ pc' = "an_break"
            /\ an' = [an EXCEPT !.cpu_util_ts = cpu, !.mem_usage_ts = mem,
                                !.max_observed_mem = maxmem]
       ELSE \E reps \in {due(an.variant, t2, an.next_analysis)} :
            /\ current_time' = t2
            /\ pc' = "an_loop"
            /\ an' = [an EXCEPT
                        !.cpu_util_ts = cpu, !.mem_usage_ts = mem,
                        !.max_observed_mem = maxmem,
                        !.reports = an.reports \o reps,
                        !.next_analysis =
                           RAdd(an.next_analysis,
                                RMul(R(Len(reps)), analysis_interval))]

AnalyzerInit ==
    /\ \E jobs \in AnalyzerLists : procs = load(jobs)
    /\ current_time = Zero
    /\ pc = "an_start"
    /\ \E v \in {"patched", "phase1"} : an = [NoAnalyzer EXCEPT !.variant = v]
    \* the phase-1 step runs min(quantum, remaining): a job with an I/O share
    \* strictly inside (0, 1) then shrinks geometrically for some thirty steps
    \* before it falls under 1e-9, with denominators beyond the checker's
    \* integers; the variant is explored with shares 0 and 1
    /\ an.variant = "phase1" =>
          \A i \in 1..Len(procs) : procs[i].io_weight \in {Zero, R(1)}
    /\ sim_end_ms = Zero
    /\ energy = Zero
    /\ busy_time = Zero
    /\ gantt = <<>>
    /\ trace = <<>>
    /\ call = NoCall
    /\ pm = PowerModel
    /\ runs = 1
    /\ prev_out = NoOutput
    /\ main = NoMain

\* lines 151-156: the prologue of run_and_analyze
AnStart ==
    /\ pc = "an_start"
    /\ pc' = "an_loop"
    /\ an' = [an EXCEPT
                !.next_analysis = analysis_interval,
                !.cpu_util_ts =
                   IF an.variant = "phase1" THEN <<>> ELSE <<<<current_time, Zero>>>>,
                !.mem_usage_ts =
                   IF an.variant = "phase1" THEN <<>>
                   ELSE <<<<current_time, total_mem(procs, current_time)>>>>]
    /\ UNCHANGED <<procs, current_time, energy, busy_time, gantt, sim_end_ms,
                   trace, call, pm, runs, prev_out, main>>

\* an iteration whose step finds nothing to run: lines 109-120, then 160-171
AnIdle ==
    /\ pc = "an_loop"
    /\ RLe(current_time, R(MaxClock))
    /\ ~all_done(procs)
    /\ pick_next(procs, current_time) = 0
    /\ procs' = procs
    /\ \E tn \in {tnext(procs, current_time)} :
          IF tn = NoEvent
          THEN iterated(current_time, current_time, an.cpu_util_ts,
                        an.mem_usage_ts, an.max_observed_mem)
          ELSE \E m \in {total_mem(procs, tn)} :
                  iterated(current_time, tn,
                           Append(an.cpu_util_ts, <<tn, Zero>>),
                           Append(an.mem_usage_ts, <<tn, m>>),
                           RMax(an.max_observed_mem, m))
    /\ UNCHANGED <<energy, busy_time, gantt, sim_end_ms, trace, call, pm, runs,
                   prev_out, main>>

\* an iteration whose step runs a process: lines 121-136, then 160-171
AnRun ==
    /\ pc = "an_loop"
    /\ RLe(current_time, R(MaxClock))
    /\ ~all_done(procs)
    /\ \E idx \in {pick_next(procs, current_time)} :
       /\ idx # 0
       /\ \E run \in {run_length(an.variant, procs[idx])} :
          \E t \in {RAdd(current_time, run)} :
          \E pr \in {stepped(procs[idx], current_time, run, t)} :
             /\ procs' = [procs EXCEPT ![idx] = pr]
             /\ \E m \in {total_mem(procs', t)}, u \in {instant_cpu_util(procs', t)} :
                   iterated(current_time, t,
                            Append(an.cpu_util_ts, <<t, u>>),
                            Append(an.mem_usage_ts, <<t, m>>),
                            RMax(an.max_observed_mem, m))
    /\ UNCHANGED <<energy, busy_time, gantt, sim_end_ms, trace, call, pm, runs,
                   prev_out, main>>

\* lines 157 and 173-175: the loop ends, the final analysis is reported
AnFinish ==
    /\ \/ pc = "an_loop" /\ all_done(procs)
       \/ pc = "an_break"
    /\ pc' = "an_done"
    /\ an' = [an EXCEPT !.reports = Append(an.reports, current_time)]
    /\ UNCHANGED <<procs, current_time, energy, busy_time, gantt, sim_end_ms,
                   trace, call, pm, runs, prev_out, main>>

AnalyzerNext == AnStart \/ AnIdle \/ AnRun \/ AnFinish

AnalyzerSpec == AnalyzerInit /\ [][AnalyzerNext]_vars

\* run_and_analyze is sequential code: an iteration that can be taken is taken
AnalyzerFairSpec == AnalyzerSpec /\ WF_vars(AnalyzerNext)

----------------------------------------------------------------------------
(* the last iteration of the loop, and the state it started from *)

Done == pc \in {"break_150", "break_204", "break_205"}

Ran == trace # <<>> /\ trace[Len(trace)].kind = "run"

Last == trace[Len(trace)]

Jobs == 1..Len(procs)

\* only the dispatched job's remaining demand changes in a run segment
RemAtStart(i) == IF i = Last.pid THEN Last.rem0 ELSE procs[i].remaining

ReadyAtStart(i) == RLe(procs[i].arrival, Last.from) /\ GtEps(RemAtStart(i))

----------------------------------------------------------------------------
\* C1: every executed run segment dispatches a job that is ready at the
\* segment's start (arrival <= clock, remaining > 1e-9) and whose remaining
\* demand is minimal among the ready jobs; among the ready jobs of minimal
\* remaining demand the one with the lowest id is dispatched.
C1_SRTF ==
    Ran => /\ Last.pid \in Jobs
           /\ ReadyAtStart(Last.pid)
           /\ \A j \in Jobs :
                 ReadyAtStart(j) =>
                    /\ RLe(Last.rem0, RemAtStart(j))
                    /\ (RemAtStart(j) = Last.rem0 => Last.pid <= j)

\* a run segment dispatched while another ready job had the same remaining demand
C1_Witness ==
    /\ Ran
    /\ \E j \in Jobs : j # Last.pid /\ ReadyAtStart(j) /\ RemAtStart(j) = Last.rem0

\* C2: the end of every executed run segment is the earliest of (a) the
\* dispatched job's completion at the chosen level, (b) the earliest arrival
\* strictly after the segment's start, (c) the start plus the 50 ms quantum;
\* so it passes none of the three.
C2_SegmentEnd ==
    Ran =>
      LET a == RAdd(Last.from, RDiv(Last.rem0, freqs[Last.fi + 1].ghz))
          c == RAdd(Last.from, R(50))
          later == {procs[j].arrival : j \in {k \in Jobs : RLt(Last.from, procs[k].arrival)}}
      IN /\ current_time = Last.to
         /\ RLe(Last.to, a)
         /\ RLe(Last.to, c)
         /\ \A b \in later : RLe(Last.to, b)
         /\ (Last.to = a \/ Last.to = c \/ Last.to \in later)

\* a run segment cut short by an arrival, before completion and before the quantum
C2_Witness ==
    /\ Ran
    /\ \E j \in Jobs : procs[j].arrival = Last.to /\ RLt(Last.from, Last.to)
    /\ RLt(Last.to, RAdd(Last.from, RDiv(Last.rem0, freqs[Last.fi + 1].ghz)))
    /\ RLt(Last.to, RAdd(Last.from, R(50)))

\* C3: for a non-empty ready set and a lookahead window, pick_frequency_index
\* returns the highest level when short_frac > 0.6 or util_pred > 0.6
\* (short_frac the fraction of ready jobs with remaining <= 30 ms, util_pred
\* = min(1, sum of remaining / lookahead)), otherwise level 0 when the mean
\* remaining demand exceeds 200 ms, otherwise level 1.
C3_FrequencyRule ==
    (call.result # -2 /\ call.ready # <<>>) =>
      LET n == Len(call.ready)
          rem(i) == call.ready[i].remaining
          short == Cardinality({i \in 1..n : RLe(rem(i), R(30))})
          sum == RSum([i \in 1..n |-> rem(i)])
          ratio == RDiv(sum, call.window)
          util == IF RLt(R(1), ratio) THEN R(1) ELSE ratio
          high == 10 * short > 6 * n \/ RLt(<<6, 10>>, util)
          low == RLt(R(200 * n), sum)
      IN call.result = IF high THEN 2 ELSE IF low THEN 0 ELSE 1

\* the low-frequency rule applied: a long job and a window it does not fill
C3_Witness ==
    /\ call.result = 0
    /\ call.ready # <<>>
    /\ RLt(RSum([i \in 1..Len(call.ready) |-> call.ready[i].remaining]),
           RMul(<<6, 10>>, call.window))

\* what one entry of the trace adds to the energy, in Joules
Contribution(rec) ==
    LET seconds == RDiv(RSub(rec.to, rec.from), R(1000))
    IN IF rec.kind = "run" THEN RMul(seconds, freqs[rec.fi + 1].power)
       ELSE IF rec.kind = "idle" THEN RMul(seconds, <<2, 10>>)
       ELSE Zero

\* C4: cumulative energy never decreases and is at every point the sum, over
\* the executed segments, of duration in seconds times the power of the level
\* used, plus idle_power times the duration in seconds of the idle intervals;
\* no contribution is negative.
C4_Energy ==
    /\ [](/\ energy = RSum([k \in 1..Len(trace) |-> Contribution(trace[k])])
          /\ \A k \in 1..Len(trace) : RLe(Zero, Contribution(trace[k])))
    /\ [][RLe(energy, energy')]_vars

\* energy made of an idle interval and of run segments at two different levels
C4_Witness ==
    /\ Done
    /\ \E i, j, k \in 1..Len(trace) :
          /\ trace[i].kind = "idle"
          /\ trace[j].kind = "run" /\ trace[j].fi = 1
          /\ trace[k].kind = "run" /\ trace[k].fi = 2
    /\ RLt(Zero, energy)

\* C5: a job's remaining demand never increases, is never negative, and is
\* <= 1e-9 whenever its completion time is set.
C5_Remaining ==
    /\ [](\A i \in Jobs :
            /\ RLe(Zero, procs[i].remaining)
            /\ (procs[i].finish_time # Unset => ~GtEps(procs[i].remaining)))
    /\ [][\A i \in Jobs : RLe(procs'[i].remaining, procs[i].remaining)]_vars

\* a job run in several segments: unfinished after one, completed by a later one
C5_Witness ==
    /\ Ran
    /\ procs[Last.pid].finish_time = Last.to
    /\ RLt(procs[Last.pid].start_time, Last.from)
    /\ RLt(Last.rem0, procs[Last.pid].burst)

\* C6: a job's first-dispatch time, once set, never changes; its completion
\* time, once set, never changes and the job is not touched again; when both
\* are set, arrival <= first-dispatch <= completion.
C6_Stamps ==
    /\ [][\A i \in Jobs :
            /\ (procs[i].start_time # Unset =>
                  procs'[i].start_time = procs[i].start_time)
            /\ (procs[i].finish_time # Unset => procs'[i] = procs[i])]_vars
    /\ [](\A i \in Jobs :
            (procs[i].start_time # Unset /\ procs[i].finish_time # Unset) =>
               /\ RLe(procs[i].start_time, procs[i].finish_time)
               /\ RLe(procs[i].arrival, procs[i].start_time))

\* a job dispatched again after its first segment, while another job is complete
C6_Witness ==
    /\ Ran
    /\ RLt(procs[Last.pid].start_time, Last.from)
    /\ \E j \in Jobs : procs[j].finish_time # Unset /\ RLt(procs[j].finish_time, Last.from)

\* C7: for every job set with arrivals >= 0 and bursts >= 0 the run
\* terminates, and when it has terminated with the clock not past the horizon
\* every job has remaining demand <= 1e-9 and no job arrives after the final
\* clock.
C7_Termination ==
    /\ <>Done
    /\ []((Done /\ RLe(current_time, sim_end_ms)) =>
            \A i \in Jobs : /\ ~GtEps(procs[i].remaining)
                            /\ RLe(procs[i].arrival, current_time))

\* C8: once the clock is past sim_end_ms with a job still incomplete, no run
\* segment is executed, no job is dispatched and no idle interval is accrued.
C8_HorizonStop ==
    [][(RLt(sim_end_ms, current_time) /\ \E i \in Jobs : GtEps(procs[i].remaining))
         => UNCHANGED <<procs, current_time, energy, busy_time, gantt>>]_vars

\* C9: when the run has ended with every job complete and the clock not past
\* the horizon, the reported makespan (the largest completion time, at least
\* 0) is the final clock.
C9_Makespan ==
    (/\ Done
     /\ \A i \in Jobs : ~GtEps(procs[i].remaining)
     /\ RLe(current_time, sim_end_ms))
    => makespan(procs) = current_time

\* C10: at normal termination every job has its completion time set, and a
\* job's completion time is unset at the end of a run only if the horizon
\* stopped the run with that job's remaining demand > 1e-9.
C10_Distinguishable ==
    Done =>
      /\ (pc # "break_205" => \A i \in Jobs : procs[i].finish_time # Unset)
      /\ \A i \in Jobs :
            procs[i].finish_time = Unset =>
               (pc = "break_205" /\ GtEps(procs[i].remaining))

----------------------------------------------------------------------------
\* the state the reset prologue of simulate_eadvfs leaves, before any iteration
AtStart == pc = "loop" /\ trace = <<>>

\* C11: every call of simulate_eadvfs starts from clock, energy and busy time
\* zero, an empty timeline log and every job's remaining / first-dispatch /
\* completion fields at their initial values, so a second run of the same job
\* set on the same Simulator gives the energy, makespan and timeline of the
\* first.
C11_Reset ==
    /\ AtStart =>
         /\ current_time = Zero /\ energy = Zero /\ busy_time = Zero
         /\ gantt = <<>>
         /\ \A i \in Jobs : /\ procs[i].remaining = procs[i].burst
                            /\ procs[i].start_time = Unset
                            /\ procs[i].finish_time = Unset
    /\ (Done /\ runs > 1) => Output = prev_out

----------------------------------------------------------------------------
\* C12: the clock never decreases across an iteration of the loop, whether
\* the iteration idles, runs a segment, or takes the retry branch of line 182.
C12_ClockMonotone ==
    [][pc = "loop" => RLe(current_time, current_time')]_vars

\* the clock has advanced through an idle jump and then a run segment
C12_Witness ==
    /\ \E i, j \in DOMAIN trace :
          i < j /\ trace[i].kind = "idle" /\ trace[j].kind = "run"
    /\ RLt(Zero, current_time)

----------------------------------------------------------------------------
\* an iteration through the idle branch, lines 152-156
IdleStep ==
    /\ pc = "loop"
    /\ Len(trace') = Len(trace) + 1
    /\ trace'[Len(trace')].kind = "idle"

\* no job with work to do arrives before 300 ms, and one arrives at 300 ms
NothingReadyUntil300 ==
    /\ \E i \in Jobs : GtEps(procs[i].burst) /\ procs[i].arrival = R(300)
    /\ \A i \in Jobs : GtEps(procs[i].burst) => RLe(R(300), procs[i].arrival)

\* C13: an idle step is taken only with an empty ready set and an arrival
\* after the clock; it moves the clock to the earliest such arrival, adds
\* idle_power * (interval in ms) / 1000 J to the energy and leaves the jobs,
\* the busy time and the timeline unchanged.  With nothing ready before
\* 300 ms, the energy at clock 300 is idle_power * 0.3 J and the timeline is
\* empty up to then.
C13_IdleFrame ==
    /\ [][IdleStep =>
            /\ ReadyQueue(procs, current_time) = <<>>
            /\ \E i \in Jobs : /\ RLt(current_time, procs[i].arrival)
                               /\ current_time' = procs[i].arrival
            /\ \A j \in Jobs : RLt(current_time, procs[j].arrival)
                                  => RLe(current_time', procs[j].arrival)
            /\ energy' = RAdd(energy,
                              RDiv(RMul(pm.idle_power,
                                        RSub(current_time', current_time)),
                                   R(1000)))
            /\ UNCHANGED <<procs, busy_time, gantt>>]_vars
    /\ []((NothingReadyUntil300 /\ RLe(current_time, R(300))) =>
            /\ gantt = <<>>
            /\ current_time = R(300) => energy = RMul(pm.idle_power, <<3, 10>>))

\* the clock has reached 300 ms in two idle steps, the first to the arrival
\* of a job without work
C13_Witness ==
    /\ NothingReadyUntil300
    /\ current_time = R(300)
    /\ Len(trace) = 2
    /\ trace[1].kind = "idle" /\ trace[2].kind = "idle"

----------------------------------------------------------------------------
RECURSIVE idle_total(_, _)
idle_total(tr, i) ==
    IF i > Len(tr) THEN Zero
    ELSE RAdd(IF tr[i].kind = "idle" THEN RSub(tr[i].to, tr[i].from) ELSE Zero,
              idle_total(tr, i + 1))

\* job i has nothing left to do from time t on
FinishedBy(i, t) ==
    \/ ~GtEps(procs[i].burst)
    \/ procs[i].finish_time # Unset /\ RLe(procs[i].finish_time, t)

\* C14: in every state of a run the clock is the busy time plus the idle time
\* accrued so far, and no idle interval overlaps a time at which a job is
\* ready: every job that has arrived before the interval's end has no work
\* left when the interval starts.
C14_TimeAccounting ==
    pc # "start" =>
      /\ current_time = RAdd(busy_time, idle_total(trace, 1))
      /\ \A k \in DOMAIN trace :
            trace[k].kind = "idle" =>
               \A i \in Jobs :
                  RLt(procs[i].arrival, trace[k].to) => FinishedBy(i, trace[k].from)

\* busy, then idle, then busy again
C14_Witness ==
    \E i, j, k \in DOMAIN trace :
       /\ i < j /\ j < k
       /\ trace[i].kind = "run" /\ trace[j].kind = "idle" /\ trace[k].kind = "run"
       /\ RLt(Zero, RSub(trace[j].to, trace[j].from))

----------------------------------------------------------------------------
\* C15: for every non-empty ascending level table, one-level tables included,
\* the level index the engine uses for a run segment is an index of the
\* table; index 1 is used only when the table has a second level.
C15_ValidIndex ==
    /\ pc # "undefined"
    /\ \A k \in DOMAIN trace :
          trace[k].kind # "idle" => trace[k].fi \in 0..(Len(pm.freqs) - 1)

----------------------------------------------------------------------------
\* C16: the timeline log only grows: a step leaves it alone, appends one
\* entry, or increases the duration of its last entry; every entry has a
\* strictly positive duration and no two consecutive entries have the same
\* job id.
C16_Timeline ==
    /\ [][\/ gantt' = gantt
          \/ /\ Len(gantt') = Len(gantt) + 1
             /\ SubSeq(gantt', 1, Len(gantt)) = gantt
          \/ /\ gantt # <<>>
             /\ Len(gantt') = Len(gantt)
             /\ SubSeq(gantt', 1, Len(gantt) - 1) = SubSeq(gantt, 1, Len(gantt) - 1)
             /\ gantt'[Len(gantt)][1] = gantt[Len(gantt)][1]
             /\ RLt(gantt[Len(gantt)][2], gantt'[Len(gantt)][2])]_vars
    /\ [](\A k \in DOMAIN gantt :
             /\ RLt(Zero, gantt[k][2])
             /\ k < Len(gantt) => gantt[k][1] # gantt[k + 1][1])

\* two entries, one of them longer than a quantum and so made of several
\* segments
C16_Witness ==
    /\ Len(gantt) >= 2
    /\ \E k \in DOMAIN gantt : RLt(quantum, gantt[k][2])

----------------------------------------------------------------------------
SingleJob100 ==
    Len(procs) = 1 /\ procs[1].arrival = Zero /\ procs[1].burst = R(100)

RunsOf(tr) == SelectSeq(tr, LAMBDA e : e.kind = "run")

\* C17 as stated: the single job (0, 100) under the default power model ends
\* with one timeline entry of at most 100 ms, executed at one level L, finish
\* time 100 / speed(L) and energy power(L) * (100 / speed(L)) / 1000 J.
C17_OneLevel ==
    (SingleJob100 /\ Done) =>
       /\ Len(gantt) = 1
       /\ RLe(gantt[1][2], R(100))
       /\ \E L \in DOMAIN freqs :
             /\ \A k \in DOMAIN trace :
                   trace[k].kind = "run" => trace[k].fi = L - 1
             /\ procs[1].finish_time = RDiv(R(100), freqs[L].ghz)
             /\ energy = RDiv(RMul(freqs[L].power,
                                   RDiv(R(100), freqs[L].ghz)), R(1000))

\* C17 as the code has it: one timeline entry of 62.5 ms, made of a 50 ms
\* segment at level 1 (75 ms of work) and a 12.5 ms segment at level 2 (the
\* remaining 25 ms); finish time 62.5 ms; energy the sum of the two segments'
\* power * duration / 1000, 0.18625 J.
C17_SingleJob ==
    (SingleJob100 /\ Done) =>
       /\ gantt = << <<1, <<125, 2>> >> >>
       /\ RLe(gantt[1][2], R(100))
       /\ Len(RunsOf(trace)) = 2
       /\ RunsOf(trace)[1].fi = 1
       /\ RunsOf(trace)[1].from = Zero /\ RunsOf(trace)[1].to = quantum
       /\ RunsOf(trace)[2].fi = 2
       /\ RunsOf(trace)[2].from = quantum
       /\ RunsOf(trace)[2].to =
             RAdd(quantum, RDiv(RSub(R(100), RMul(quantum, freqs[2].ghz)),
                                freqs[3].ghz))
       /\ procs[1].finish_time = <<125, 2>>
       /\ energy = RAdd(RDiv(RMul(freqs[2].power, quantum), R(1000)),
                        RDiv(RMul(freqs[3].power, <<25, 2>>), R(1000)))
       /\ energy = <<149, 800>>

C17_Witness == SingleJob100 /\ pc = "break_204" /\ procs[1].remaining = Zero

----------------------------------------------------------------------------
\* the jobs (0, 50) and (0, 200), the short one at position s
ShortAndLong(s, l) ==
    /\ Len(procs) = 2 /\ {s, l} = {1, 2}
    /\ procs[s].arrival = Zero /\ procs[s].burst = R(50)
    /\ procs[l].arrival = Zero /\ procs[l].burst = R(200)

\* C18: with the jobs (0, 50) and (0, 200) the 50 ms job is dispatched first
\* and has completed before any segment of the 200 ms job starts; the 200 ms
\* job's first dispatch is at the 50 ms job's completion time, and no idle
\* step is taken.
C18_ShortFirst ==
    \A s, l \in Jobs :
       ShortAndLong(s, l) =>
          /\ trace # <<>> => trace[1].kind = "run" /\ trace[1].pid = s
          /\ \A k \in DOMAIN trace :
                /\ trace[k].kind # "idle"
                /\ trace[k].pid = l =>
                      /\ procs[s].finish_time # Unset
                      /\ RLe(procs[s].finish_time, trace[k].from)
          /\ procs[l].start_time # Unset =>
                procs[l].start_time = procs[s].finish_time
          /\ energy = RSum([k \in DOMAIN trace |->
                              RDiv(RMul(freqs[trace[k].fi + 1].power,
                                        RSub(trace[k].to, trace[k].from)),
                                   R(1000))])

\* both jobs complete, the 200 ms job being the first in the job list
C18_Witness ==
    /\ ShortAndLong(2, 1)
    /\ pc = "break_204"
    /\ procs[1].start_time = procs[2].finish_time

----------------------------------------------------------------------------
\* C20: with lookahead window 200 ms, threshold 0.6 and the low-level rule
\* avg_rem > 200 ms, no run segment uses level index 0: a ready set of mean
\* remaining demand over 200 ms has util_pred = 1 and gets the highest level,
\* and the policy, called with a non-empty ready set, never returns -1.
C20_NoLowestLevel ==
    /\ \A k \in DOMAIN trace : trace[k].kind # "idle" => trace[k].fi # 0
    /\ pc = "loop" =>
         LET ready == ReadyQueue(procs, current_time)
         IN ready # <<>> =>
              /\ pick_frequency_index(ready, lookahead_window) >= 1
              /\ RLt(R(200), RDiv(sum_rem(ready), R(Len(ready)))) =>
                    /\ util_pred(ready, lookahead_window) = R(1)
                    /\ frequency_index(ready) = Len(freqs) - 1

\* a segment has run for a ready set of mean remaining demand over 200 ms
C20_Witness ==
    \E k \in DOMAIN trace :
       /\ trace[k].kind = "run"
       /\ RLt(R(200), trace[k].rem0)
       /\ trace[k].fi = 2
       /\ \A i \in Jobs : i # trace[k].pid => RLt(trace[k].from, procs[i].arrival)

----------------------------------------------------------------------------
\* the job source cannot be opened, or yields no job
InputError ==
    \/ main.src = "unreadable"
    \/ main.src = "file" /\ read_jobs(main.file, 1) = <<>>

\* C19: when the job source is unreadable or yields zero jobs, the program
\* ends with a non-zero exit status and runs neither simulate_eadvfs nor the
\* report.
C19_InputError ==
    (main.stage # "api" /\ InputError) =>
       /\ pc = "main"
       /\ ~main.reported
       /\ main.stage = "exited" => main.exit # 0

----------------------------------------------------------------------------
\* C21: when two consecutive executed run segments dispatch different jobs,
\* then at the end of the first segment either its job has just completed or
\* some job arrives at exactly that instant; the expiry of the 50 ms quantum
\* alone never changes the running job.
C21_SwitchOnlyOnArrival ==
    \A k \in 1..(Len(RunsOf(trace)) - 1) :
       RunsOf(trace)[k].pid # RunsOf(trace)[k + 1].pid =>
          \/ procs[RunsOf(trace)[k].pid].finish_time = RunsOf(trace)[k].to
          \/ \E i \in Jobs : procs[i].arrival = RunsOf(trace)[k].to

\* a job cut short by an arrival gives way to the arriving job while it has
\* work left, and a job whose quantum expired went on running
C21_Witness ==
    /\ \E k \in 1..(Len(RunsOf(trace)) - 1) :
          /\ RunsOf(trace)[k].pid # RunsOf(trace)[k + 1].pid
          /\ RunsOf(trace)[k + 1].from = RunsOf(trace)[k].to
          /\ procs[RunsOf(trace)[k].pid].finish_time # RunsOf(trace)[k].to
    /\ \E k \in 1..(Len(RunsOf(trace)) - 1) :
          /\ RunsOf(trace)[k].pid = RunsOf(trace)[k + 1].pid
          /\ RSub(RunsOf(trace)[k].to, RunsOf(trace)[k].from) = quantum

----------------------------------------------------------------------------
\* the work job i has received: duration * speed, summed over its segments
WorkDone(i) ==
    RSum([k \in 1..Len(SelectSeq(trace, LAMBDA e : e.kind = "run" /\ e.pid = i)) |->
            RMul(RSub(SelectSeq(trace, LAMBDA e : e.kind = "run" /\ e.pid = i)[k].to,
                      SelectSeq(trace, LAMBDA e : e.kind = "run" /\ e.pid = i)[k].from),
                 freqs[SelectSeq(trace, LAMBDA e : e.kind = "run" /\ e.pid = i)[k].fi + 1].ghz)])

\* C22 as stated: each job's remaining demand is its burst minus the work it
\* has received, and a completed job has received exactly its burst.
C22_ExactWork ==
    \A i \in Jobs :
       /\ procs[i].remaining = RSub(procs[i].burst, WorkDone(i))
       /\ procs[i].finish_time # Unset => WorkDone(i) = procs[i].burst

\* C22 as the code has it: each job's remaining demand is its burst minus the
\* work it has received, which never exceeds the burst (the clamp discards
\* nothing); a completed job has received its burst less at most 1e-9 ms.
C22_WorkConserved ==
    \A i \in Jobs :
       /\ procs[i].remaining = RSub(procs[i].burst, WorkDone(i))
       /\ RLe(WorkDone(i), procs[i].burst)
       /\ procs[i].finish_time # Unset =>
             ~GtEps(RSub(procs[i].burst, WorkDone(i)))

\* a job stamped complete when an arrival cut its segment with less than
\* 1e-9 ms of work left
C22_Witness ==
    \E i \in Jobs :
       /\ procs[i].finish_time # Unset
       /\ RLt(Zero, procs[i].remaining)
       /\ RLt(WorkDone(i), procs[i].burst)

----------------------------------------------------------------------------
\* C23: an iteration that finds the ready set non-empty executes a run
\* segment of strictly positive duration; the retry branch of line 182 is
\* never taken.
C23_PositiveSegment ==
    /\ [][(pc = "loop" /\ ReadyQueue(procs, current_time) # <<>>) =>
             /\ Len(trace') = Len(trace) + 1
             /\ trace'[Len(trace')].kind = "run"
             /\ trace'[Len(trace')].from = current_time
             /\ trace'[Len(trace')].to = current_time'
             /\ RLt(current_time, current_time')
             /\ RLt(busy_time, busy_time')]_vars
    /\ [](\A k \in DOMAIN trace : trace[k].kind # "retry")

\* a segment cut by an arrival: shorter than the quantum, its job unfinished
C23_Witness ==
    /\ Ran
    /\ RLt(RSub(Last.to, Last.from), quantum)
    /\ GtEps(procs[Last.pid].remaining)
    /\ \E i \in Jobs : procs[i].arrival = Last.to

----------------------------------------------------------------------------
\* C24: in every state of a single run on a new Simulator the busy time is
\* the sum of the durations of the timeline entries, and the job ids in the
\* timeline are exactly the ids of the jobs whose first-dispatch time is set.
C24_BusyIsTimeline ==
    /\ busy_time = RSum([k \in DOMAIN gantt |-> gantt[k][2]])
    /\ {gantt[k][1] : k \in DOMAIN gantt} =
          {procs[i].pid : i \in {j \in Jobs : procs[j].start_time # Unset}}

\* a merged entry of more than one quantum, and a job with work that has not
\* been dispatched yet
C24_Witness ==
    /\ \E k \in DOMAIN gantt : RLt(quantum, gantt[k][2])
    /\ \E i \in Jobs : procs[i].start_time = Unset /\ GtEps(procs[i].burst)
    /\ pc = "loop"

----------------------------------------------------------------------------
\* C25: for every job that has completed when the run ends, the reported
\* turnaround, completion - arrival, is positive and the reported waiting
\* time, turnaround - burst, is not negative.
C25_Waiting ==
    Done => \A i \in Jobs :
               procs[i].finish_time # Unset =>
                  /\ RLt(Zero, tat(procs[i]))
                  /\ RLe(Zero, wait(procs[i]))

----------------------------------------------------------------------------
\* C26: run_and_analyze terminates for every finite job set with io_weight in
\* [0, 1]: every step that runs a process advances the clock and reduces the
\* remaining demand of the process it selected, and the loop ends with every
\* process at remaining <= 1e-9.
C26_AnalyzerTerminates ==
    /\ [][(pc = "an_loop" /\ pick_next(procs, current_time) # 0) =>
             /\ RLt(current_time, current_time')
             /\ RLt(procs'[pick_next(procs, current_time)].remaining,
                    procs[pick_next(procs, current_time)].remaining)]_vars
    /\ <>(pc = "an_done" /\ all_done(procs))

====
